---- MODULE Spec2Model ----
(***************************************************************************)
(* The suppression-list server of src/main.go: an in-memory cache (list    *)
(* and index) of the provider's suppressed addresses guarded by one        *)
(* sync.RWMutex, refreshed by full pagination and pruned entry by entry.   *)
(* Strings are sequences of ASCII code points; every HTTP request runs in  *)
(* its own goroutine, one handler process each.                            *)
(***************************************************************************)
EXTENDS Integers, Sequences, FiniteSets, TLC

\* ------------------------------------------------------------- bounds
\* Requests served after start-up (all handlers together).
MaxRequests == 2
\* List pages the provider returns to one refresh before it ends the listing.
MaxPages == 2
\* Addresses one refresh collects over all its pages.
MaxCollected == 3

\* ------------------------------------------------------------- universe
Procs == {1, 2}
NoProc == 0

\* "a", "B", "b": "B" and "b" are case variants of one address.
Addr == { <<97>>, <<66>>, <<98>> }
\* Addresses with pairwise distinct lowercased forms.
DistinctAddr == { <<97>>, <<66>> }

\* What the "long" provider lists, in its order: thirteen addresses,
\* "a", "c", "z", "d", "e", "B", "m", "n", "o", "p", "q", "b", "r".
LongListing ==
    << <<97>>, <<99>>, <<122>>, <<100>>, <<101>>, <<66>>, <<109>>,
       <<110>>, <<111>>, <<112>>, <<113>>, <<98>>, <<114>> >>

\* The providers tried. "any" holds case variants and may return an address
\* more than once in one listing; "distinct" holds addresses with pairwise
\* distinct lowercased forms and returns each at most once per listing;
\* "long" lists what is left of LongListing, in that order.
Providers == {"any", "distinct", "long"}
Universe(pr) ==
    IF pr = "distinct" THEN DistinctAddr
    ELSE IF pr = "long" THEN { LongListing[n] : n \in 1..Len(LongListing) }
    ELSE Addr

\* The "emails" field of the /remove bodies tried:
\* "A\nb", "B\nB", " z\n\na \n".
Bodies == { <<65, 10, 98>>, <<66, 10, 66>>,
            <<32, 122, 10, 10, 97, 32, 10>> }
\* A body json.Decode rejects.
Malformed == <<123>>

Methods == {"POST", "GET"}

\* A nil *string, against pointers to "" and to "t1".
Nil == "<nil>"
Tokens == {"", "t1"}

\* err.Error() of a failed remote call, as it is spliced into a result.
ErrText == <<69>>

\* ------------------------------------------------------------- strings
ToLowerRune(c) == IF c >= 65 /\ c <= 90 THEN c + 32 ELSE c

ToLower(s) == [n \in 1..Len(s) |-> ToLowerRune(s[n])]

RECURSIVE StrLess(_, _)
StrLess(a, b) ==
    IF b = <<>> THEN FALSE
    ELSE IF a = <<>> THEN TRUE
    ELSE IF Head(a) # Head(b) THEN Head(a) < Head(b)
    ELSE StrLess(Tail(a), Tail(b))

IsSpace(c) == c \in {9, 10, 11, 12, 13, 32}

RECURSIVE TrimLeft(_)
TrimLeft(s) ==
    IF s # <<>> /\ IsSpace(Head(s)) THEN TrimLeft(Tail(s)) ELSE s

RECURSIVE TrimRight(_)
TrimRight(s) ==
    IF s # <<>> /\ IsSpace(s[Len(s)])
    THEN TrimRight(SubSeq(s, 1, Len(s) - 1)) ELSE s

TrimSpace(s) == TrimRight(TrimLeft(s))

\* strings.Split(s, "\n"): always at least one (possibly empty) piece.
RECURSIVE SplitLines(_, _)
SplitLines(s, acc) ==
    IF s = <<>> THEN << acc >>
    ELSE IF Head(s) = 10 THEN << acc >> \o SplitLines(Tail(s), <<>>)
    ELSE SplitLines(Tail(s), Append(acc, Head(s)))

RECURSIVE KeepNonEmpty(_)
KeepNonEmpty(ls) ==
    IF ls = <<>> THEN <<>>
    ELSE IF TrimSpace(Head(ls)) # <<>>
         THEN << TrimSpace(Head(ls)) >> \o KeepNonEmpty(Tail(ls))
         ELSE KeepNonEmpty(Tail(ls))

ParseInputs(body) == KeepNonEmpty(SplitLines(body, <<>>))

\* ------------------------------------------------------------- refresh helpers
\* The comparison without the lowercasing.
LessCaseSensitive(a, b) == StrLess(a, b)

Less(a, b) == StrLess(ToLower(a), ToLower(b))

\* sort.Slice (pdqsort_func of package sort) sorts a slice of at most
\* maxInsertion elements by insertion.
maxInsertion == 12

Swap(s, i, j) == [s EXCEPT ![i] = s[j], ![j] = s[i]]

\* The inner loop of insertionSort: s[j] moves down to lo while it is Less
\* than the element before it.
RECURSIVE InsertDown(_, _, _)
InsertDown(s, j, lo) ==
    IF j > lo /\ Less(s[j], s[j - 1])
    THEN InsertDown(Swap(s, j, j - 1), j - 1, lo)
    ELSE s

RECURSIVE InsertionSortFrom(_, _, _, _)
InsertionSortFrom(s, i, lo, hi) ==
    IF i > hi THEN s
    ELSE InsertionSortFrom(InsertDown(s, i, lo), i + 1, lo, hi)

\* insertionSort on s[lo..hi]: elements that are not Less than one another
\* keep their order.
InsertionSort(s, lo, hi) == InsertionSortFrom(s, lo + 1, lo, hi)

\* order2: the two positions in the order of their elements, and 1 when
\* they had to be exchanged.
Order2(s, x, y) == IF Less(s[y], s[x]) THEN << y, x, 1 >> ELSE << x, y, 0 >>

\* median: the position of the median of three elements, and the number of
\* exchanges it took.
Median(s, x, y, z) ==
    LET o1 == Order2(s, x, y)
        o2 == Order2(s, o1[2], z)
        o3 == Order2(s, o1[1], o2[1])
    IN  << o3[2], o1[3] + o2[3] + o3[3] >>

\* choosePivot on s[lo..hi] for 8 to 49 elements: the median of the elements
\* at one, two and three quarters.
ChoosePivot(s, lo, hi) ==
    LET l == hi - lo + 1
    IN  Median(s, lo + (l \div 4), lo + (l \div 4) * 2, lo + (l \div 4) * 3)

\* partialInsertionSort on fewer than 50 elements changes nothing and
\* reports whether s[lo..hi] is in order already.
InOrder(s, lo, hi) == \A i \in (lo + 1)..hi : ~Less(s[i], s[i - 1])

RECURSIVE ScanUp(_, _, _, _)
ScanUp(s, i, j, lo) ==
    IF i <= j /\ Less(s[i], s[lo]) THEN ScanUp(s, i + 1, j, lo) ELSE i

RECURSIVE ScanDown(_, _, _, _)
ScanDown(s, i, j, lo) ==
    IF i <= j /\ ~Less(s[j], s[lo]) THEN ScanDown(s, i, j - 1, lo) ELSE j

\* The loop of partition with the pivot at lo: exchange the first element
\* from the left that is not Less than the pivot with the first from the
\* right that is, until the scans meet. Yields the slice and where they met.
RECURSIVE PartitionLoop(_, _, _, _)
PartitionLoop(s, i, j, lo) ==
    LET i2 == ScanUp(s, i, j, lo)
        j2 == ScanDown(s, i2, j, lo)
    IN  IF i2 > j2 THEN << s, j2 >>
        ELSE PartitionLoop(Swap(s, i2, j2), i2 + 1, j2 - 1, lo)

\* partition of s[lo..hi] around the element at pivot: the slice, and the
\* position mid where the pivot ends up.
Partition(s, lo, hi, pivot) ==
    LET r == PartitionLoop(Swap(s, lo, pivot), lo + 1, hi, lo)
    IN  << Swap(r[1], r[2], lo), r[2] >>

\* sort.Slice(emails, less) on up to maxInsertion + 1 elements, which is all
\* a listing holds here. Up to maxInsertion elements are sorted by
\* insertion. One more: when the pivot took no exchange and the slice is in
\* order it is left alone; otherwise it is partitioned once and both sides,
\* of at most maxInsertion elements together, are sorted by insertion. The
\* partition exchanges elements across the pivot, so two addresses with the
\* same lowercased form need not keep their order.
SortSlice(s) ==
    IF Len(s) <= maxInsertion THEN InsertionSort(s, 1, Len(s))
    ELSE LET pv == ChoosePivot(s, 1, Len(s))
         IN  IF pv[2] = 0 /\ InOrder(s, 1, Len(s)) THEN s
             ELSE LET pt == Partition(s, 1, Len(s), pv[1])
                  IN  InsertionSort(
                          InsertionSort(pt[1], 1, pt[2] - 1),
                          pt[2] + 1, Len(s))

EmptyMap == [k \in {} |-> <<>>]

MapPut(m, k, v) == [x \in DOMAIN m \cup {k} |-> IF x = k THEN v ELSE m[x]]

\* A delete that leaves the key in place.
MapDeleteNothing(m, k) == m

MapDelete(m, k) == [x \in DOMAIN m \ {k} |-> m[x]]

\* An index build in which the first write of a key wins.
RECURSIVE BuildIndexFromKeepingFirst(_, _)
BuildIndexFromKeepingFirst(m, es) ==
    IF es = <<>> THEN m
    ELSE IF ToLower(Head(es)) \in DOMAIN m
    THEN BuildIndexFromKeepingFirst(m, Tail(es))
    ELSE BuildIndexFromKeepingFirst(
             MapPut(m, ToLower(Head(es)), Head(es)), Tail(es))

RECURSIVE BuildIndexFrom(_, _)
BuildIndexFrom(m, es) ==
    IF es = <<>> THEN m
    ELSE BuildIndexFrom(MapPut(m, ToLower(Head(es)), Head(es)), Tail(es))

BuildIndex(es) == BuildIndexFrom(EmptyMap, es)

\* ------------------------------------------------------------- removal helpers
\* A scan that, finding no element equal to v, cuts where it stopped.
RECURSIVE RemoveFirstOrLast(_, _)
RemoveFirstOrLast(l, v) ==
    IF l = <<>> THEN <<>>
    ELSE IF Head(l) = v \/ Len(l) = 1 THEN Tail(l)
    ELSE << Head(l) >> \o RemoveFirstOrLast(Tail(l), v)

RECURSIVE RemoveFirst(_, _)
RemoveFirst(l, v) ==
    IF l = <<>> THEN <<>>
    ELSE IF Head(l) = v THEN Tail(l)
    ELSE << Head(l) >> \o RemoveFirst(Tail(l), v)

\* The position of the first element of l equal to v, 0 when there is none.
FirstIndex(l, v) ==
    IF \E n \in 1..Len(l) : l[n] = v
    THEN CHOOSE n \in 1..Len(l) : l[n] = v /\ \A m \in 1..(n - 1) : l[m] # v
    ELSE 0

\* What a slice o over the backing array of l holds after the first v was
\* cut out of l in place: the elements of l behind the cut have moved down
\* by one, the array's cells from Len(l) on are as they were.
WrittenThrough(o, l, v) ==
    LET i == FirstIndex(l, v)
    IN  IF i = 0 THEN o
        ELSE [j \in 1..Len(o) |->
                 IF j >= i /\ j < Len(l) /\ j < Len(o) THEN o[j + 1] ELSE o[j]]

NotFoundResult(input) == << "not found: ", input >>

ErrorResult(input) == << "error: ", input \o <<32, 40>> \o ErrText \o <<41>> >>

RemovedResult(o) == << "removed: ", o >>

\* ------------------------------------------------------------- state
VARIABLES
    list,      \* Server.list
    index,     \* Server.index
    writer,    \* the goroutine holding listMu exclusively, or NoProc
    readers,   \* the goroutines holding listMu shared
    provider,  \* which provider the server talks to, fixed for a run
    remote,    \* the provider's suppression list
    serving,   \* NewServer has returned and the handlers are registered
    nreq,      \* requests accepted so far
    pc,        \* where each goroutine is
    kind,      \* what it is running: "startup", "list", "update", "remove"
    status,    \* the HTTP status it answered, 0 before
    emails,    \* refresh: the addresses collected, sorted in place
    tok,       \* refresh: the pagination cursor
    idx,       \* refresh: the index built
    out,       \* handleList: the copy that is sent
    sharing,   \* the goroutines whose out shares the backing array of s.list
    inputs,    \* handleRemove: the trimmed non-empty lines
    cur,       \* handleRemove: position in inputs
    key,       \* handleRemove: the lowercased input
    orig,      \* handleRemove: the index's value for key
    ok,        \* handleRemove: key was in the index
    results,   \* handleRemove: the results so far
    overlapped, \* the goroutines in the loop of handleRemove during whose
               \* batch another goroutine has written list or index
    lcalls,    \* the cursors passed to ListSuppressedDestinations by its
               \* pagination loop, while it runs and after it failed
    dcalls     \* the addresses this request passed to DeleteSuppressedDestination

cache == << list, index >>
lock == << writer, readers >>
env == << provider, remote >>
refreshLocals == << emails, tok, idx >>
removeLocals == << inputs, cur, key, orig, ok, results >>
calls == << lcalls, dcalls >>
vars == << list, index, writer, readers, env, serving, nreq, pc, kind,
           status, emails, tok, idx, out, sharing, overlapped, inputs, cur, key, orig, ok,
           results, lcalls, dcalls >>

Init ==
    /\ list = <<>>
    /\ index = EmptyMap
    /\ writer = NoProc
    /\ readers = {}
    /\ provider \in Providers
    /\ remote = Universe(provider)
    /\ serving = FALSE
    /\ nreq = 0
    /\ pc = [p \in Procs |-> IF p = 1 THEN "r_fetch" ELSE "idle"]
    /\ kind = [p \in Procs |-> IF p = 1 THEN "startup" ELSE "none"]
    /\ status = [p \in Procs |-> 0]
    /\ emails = [p \in Procs |-> <<>>]
    /\ tok = [p \in Procs |-> Nil]
    /\ idx = [p \in Procs |-> EmptyMap]
    /\ out = [p \in Procs |-> <<>>]
    /\ sharing = {}
    /\ overlapped = {}
    /\ inputs = [p \in Procs |-> <<>>]
    /\ cur = [p \in Procs |-> 1]
    /\ key = [p \in Procs |-> <<>>]
    /\ orig = [p \in Procs |-> <<>>]
    /\ ok = [p \in Procs |-> FALSE]
    /\ results = [p \in Procs |-> <<>>]
    /\ lcalls = [p \in Procs |-> <<>>]
    /\ dcalls = [p \in Procs |-> <<>>]


SeqsUpTo(S, n) == UNION { [1..m -> S] : m \in 0..n }

NoRepeat(l) == \A m, n \in 1..Len(l) : m # n => l[m] # l[n]

\* What the "long" provider lists now, and what of it lies behind the first
\* n addresses.
LongNow == SelectSeq(LongListing, LAMBDA a : a \in remote)

LongRest(n) == SubSeq(LongNow, n + 1, Len(LongNow))

\* The pages the provider may return to a refresh that has collected es: the
\* "long" provider the rest of its listing or the first half of the rest,
\* the others any addresses they hold, up to MaxCollected in one refresh.
Pages(es) ==
    IF provider = "long"
    THEN { LongRest(Len(es)),
           SubSeq(LongRest(Len(es)), 1, Len(LongRest(Len(es))) \div 2) }
    ELSE { page \in SeqsUpTo(remote, MaxCollected - Len(es)) :
             provider = "distinct" => NoRepeat(es \o page) }

Set(f, p, v) == [f EXCEPT ![p] = v]

\* The goroutine is in handleRemove, between the parsing of the body and the
\* response.
InLoop(p) ==
    pc[p] \in {"m_rlock", "m_runlock", "m_delete", "m_lock", "m_dellist",
               "m_unlock"}

\* overlapped once goroutine q has written the cache.
Overlap(q) == overlapped \cup { p \in Procs \ {q} : InLoop(p) }

\* ------------------------------------------------------------- requests
\* Goroutines are interchangeable: a request takes the lowest idle one.
Accepting(p) ==
    /\ serving
    /\ pc[p] = "idle"
    /\ \A q \in Procs : q < p => pc[q] # "idle"
    /\ nreq < MaxRequests

\* A method check that answers 405 and goes on.
StartUpdateNoReturn(p) ==
    /\ Accepting(p)
    /\ nreq' = nreq + 1
    /\ kind' = Set(kind, p, "update")
    /\ \E method \in Methods :
          /\ status' = Set(status, p, IF method # "POST" THEN 405 ELSE 0)
          /\ pc' = Set(pc, p, "r_fetch")
    /\ UNCHANGED << overlapped, sharing, cache, lock, env, serving, refreshLocals, out,
                    removeLocals, calls >>

\* GET or POST /list reaches handleList.
StartList(p) ==
    /\ Accepting(p)
    /\ nreq' = nreq + 1
    /\ kind' = Set(kind, p, "list")
    /\ pc' = Set(pc, p, "l_rlock")
    /\ UNCHANGED << overlapped, sharing, cache, lock, env, serving, status, refreshLocals, out,
                    removeLocals, calls >>

\* handleUpdate up to the call of refresh.
StartUpdate(p) ==
    /\ Accepting(p)
    /\ nreq' = nreq + 1
    /\ kind' = Set(kind, p, "update")
    /\ \E method \in Methods :
          IF method # "POST"
          THEN /\ status' = Set(status, p, 405)
               /\ pc' = Set(pc, p, "done")
          ELSE /\ status' = status
               /\ pc' = Set(pc, p, "r_fetch")
    /\ UNCHANGED << overlapped, sharing, cache, lock, env, serving, refreshLocals, out,
                    removeLocals, calls >>

\* handleRemove up to the loop over the inputs.
StartRemove(p) ==
    /\ Accepting(p)
    /\ nreq' = nreq + 1
    /\ kind' = Set(kind, p, "remove")
    /\ \E method \in Methods, body \in Bodies \cup {Malformed} :
          IF method # "POST"
          THEN /\ status' = Set(status, p, 405)
               /\ pc' = Set(pc, p, "done")
               /\ inputs' = inputs
          ELSE IF body = Malformed
          THEN /\ status' = Set(status, p, 400)
               /\ pc' = Set(pc, p, "done")
               /\ inputs' = inputs
          ELSE /\ status' = status
               /\ pc' = Set(pc, p, "m_rlock")
               /\ inputs' = Set(inputs, p, ParseInputs(body))
    /\ UNCHANGED << overlapped, sharing, cache, lock, env, serving, refreshLocals, out,
                    cur, key, orig, ok, results, calls >>

\* ------------------------------------------------------------- refresh
\* A refresh that installs what it has collected before it reports the error.
FetchPageErrorMerging(p) ==
    /\ pc[p] = "r_fetch"
    /\ lcalls' = Set(lcalls, p, Append(lcalls[p], tok[p]))
    /\ list' = emails[p]
    /\ index' = BuildIndex(emails[p])
    /\ emails' = Set(emails, p, <<>>)
    /\ tok' = Set(tok, p, Nil)
    /\ pc' = Set(pc, p, "done")
    /\ status' = Set(status, p, IF kind[p] = "startup" THEN 0 ELSE 500)
    /\ UNCHANGED << overlapped, sharing, lock, env, serving, nreq, kind, idx,
                    out, removeLocals, dcalls >>

\* ListSuppressedDestinations returns an error: refresh returns it, which
\* ends the life of its locals, and the caller logs it or answers 500.
FetchPageError(p) ==
    /\ pc[p] = "r_fetch"
    /\ lcalls' = Set(lcalls, p, Append(lcalls[p], tok[p]))
    /\ emails' = Set(emails, p, <<>>)
    /\ tok' = Set(tok, p, Nil)
    /\ pc' = Set(pc, p, "done")
    /\ status' = Set(status, p, IF kind[p] = "startup" THEN 0 ELSE 500)
    /\ UNCHANGED << overlapped, sharing, cache, lock, env, serving, nreq, kind, idx,
                    out, removeLocals, dcalls >>

\* A page with a cursor: collect it and go round the loop.
FetchPageMore(p) ==
    /\ pc[p] = "r_fetch"
    /\ Len(lcalls[p]) + 1 < MaxPages
    /\ lcalls' = Set(lcalls, p, Append(lcalls[p], tok[p]))
    /\ \E page \in Pages(emails[p]), next \in Tokens :
          /\ emails' = Set(emails, p, emails[p] \o page)
          /\ tok' = Set(tok, p, next)
    /\ UNCHANGED << overlapped, sharing, cache, lock, env, serving, nreq, pc, kind, status,
                    idx, out, removeLocals, dcalls >>

\* A last page that replaces what the earlier pages brought.
FetchPageLastOverwriting(p) ==
    /\ pc[p] = "r_fetch"
    /\ lcalls' = Set(lcalls, p, <<>>)
    /\ tok' = Set(tok, p, Nil)
    /\ \E page \in Pages(emails[p]) :
          emails' = Set(emails, p, page)
    /\ pc' = Set(pc, p, "r_sort")
    /\ UNCHANGED << overlapped, sharing, cache, lock, env, serving, nreq, kind, status,
                    idx, out, removeLocals, dcalls >>

\* A page without cursor: collect it and leave the loop, which ends the use
\* of the cursor.
FetchPageLast(p) ==
    /\ pc[p] = "r_fetch"
    /\ lcalls' = Set(lcalls, p, <<>>)
    /\ tok' = Set(tok, p, Nil)
    /\ \E page \in Pages(emails[p]) :
          emails' = Set(emails, p, emails[p] \o page)
    /\ pc' = Set(pc, p, "r_sort")
    /\ UNCHANGED << overlapped, sharing, cache, lock, env, serving, nreq, kind, status,
                    idx, out, removeLocals, dcalls >>

\* sort.Slice(emails, ...) and the loop that fills idx.
RefreshSort(p) ==
    /\ pc[p] = "r_sort"
    /\ emails' = Set(emails, p, SortSlice(emails[p]))
    /\ idx' = Set(idx, p, BuildIndex(SortSlice(emails[p])))
    /\ pc' = Set(pc, p, "r_lock")
    /\ UNCHANGED << overlapped, sharing, cache, lock, env, serving, nreq, kind, status, tok,
                    out, removeLocals, calls >>

\* Lock, and s.list, s.index = emails, idx: s.list now has the backing array
\* of emails, which no earlier slice shares.
RefreshSwap(p) ==
    /\ pc[p] = "r_lock"
    /\ writer = NoProc /\ readers = {}
    /\ writer' = p
    /\ list' = emails[p]
    /\ index' = idx[p]
    /\ sharing' = {}
    /\ overlapped' = Overlap(p)
    /\ pc' = Set(pc, p, "r_unlock")
    /\ UNCHANGED << readers, env, serving, nreq, kind, status,
                    refreshLocals, out, removeLocals, calls >>

\* Unlock and return nil, which ends the life of refresh's locals: NewServer
\* returns, handleUpdate goes on to handleList.
RefreshUnlock(p) ==
    /\ pc[p] = "r_unlock"
    /\ writer' = NoProc
    /\ pc' = Set(pc, p, IF kind[p] = "startup" THEN "done" ELSE "l_rlock")
    /\ emails' = Set(emails, p, <<>>)
    /\ idx' = Set(idx, p, EmptyMap)
    /\ UNCHANGED << overlapped, sharing, cache, readers, env, serving, nreq, kind, status, tok,
                    out, removeLocals, calls >>

\* ------------------------------------------------------------- list
\* A copy taken without waiting for the writer to leave.
ListCopyUnguarded(p) ==
    /\ pc[p] = "l_rlock"
    /\ readers' = readers \cup {p}
    /\ out' = Set(out, p, list)
    /\ sharing' = sharing \ {p}
    /\ pc' = Set(pc, p, "l_runlock")
    /\ UNCHANGED << overlapped, cache, writer, env, serving, nreq, kind, status,
                    refreshLocals, removeLocals, calls >>

\* A handleList that hands out s.list itself.
ListCopyAliasing(p) ==
    /\ pc[p] = "l_rlock"
    /\ writer = NoProc
    /\ readers' = readers \cup {p}
    /\ out' = Set(out, p, list)
    /\ sharing' = sharing \cup {p}
    /\ pc' = Set(pc, p, "l_runlock")
    /\ UNCHANGED << overlapped, cache, writer, env, serving, nreq, kind, status,
                    refreshLocals, removeLocals, calls >>

\* RLock, and append([]string(nil), s.list...): the elements of s.list in a
\* backing array of the copy's own.
ListCopy(p) ==
    /\ pc[p] = "l_rlock"
    /\ writer = NoProc
    /\ readers' = readers \cup {p}
    /\ out' = Set(out, p, list)
    /\ sharing' = sharing \ {p}
    /\ pc' = Set(pc, p, "l_runlock")
    /\ UNCHANGED << overlapped, cache, writer, env, serving, nreq, kind, status,
                    refreshLocals, removeLocals, calls >>

\* RUnlock and respondJSON.
ListRUnlock(p) ==
    /\ pc[p] = "l_runlock"
    /\ readers' = readers \ {p}
    /\ status' = Set(status, p, 200)
    /\ pc' = Set(pc, p, "done")
    /\ UNCHANGED << overlapped, sharing, cache, writer, env, serving, nreq, kind,
                    refreshLocals, out, removeLocals, calls >>


\* ------------------------------------------------------------- remove
\* The loop is over: respondJSON.
RemoveRespond(p) ==
    /\ pc[p] = "m_rlock"
    /\ cur[p] > Len(inputs[p])
    /\ status' = Set(status, p, 200)
    /\ pc' = Set(pc, p, "done")
    /\ UNCHANGED << overlapped, sharing, cache, lock, env, serving, nreq, kind, refreshLocals,
                    out, removeLocals, calls >>

\* A lookup whose second result is not looked at.
MapGetAlwaysOk(m, k) == << IF k \in DOMAIN m THEN m[k] ELSE <<>>, TRUE >>

\* s.index[k]: a missing key yields "" and false.
MapGet(m, k) == IF k \in DOMAIN m THEN << m[k], TRUE >> ELSE << <<>>, FALSE >>

\* The next input: lowercase it, RLock, and orig, ok := s.index[key].
RemoveLookup(p) ==
    /\ pc[p] = "m_rlock"
    /\ cur[p] <= Len(inputs[p])
    /\ writer = NoProc
    /\ readers' = readers \cup {p}
    /\ LET k == ToLower(inputs[p][cur[p]])
       IN  /\ key' = Set(key, p, k)
           /\ orig' = Set(orig, p, MapGet(index, k)[1])
           /\ ok' = Set(ok, p, MapGet(index, k)[2])
    /\ pc' = Set(pc, p, "m_runlock")
    /\ UNCHANGED << overlapped, sharing, cache, writer, env, serving, nreq, kind, status,
                    refreshLocals, out, inputs, cur, results, calls >>

\* An unknown key that ends the loop.
RemoveRUnlockStopping(p) ==
    /\ pc[p] = "m_runlock"
    /\ readers' = readers \ {p}
    /\ IF ok[p]
       THEN /\ pc' = Set(pc, p, "m_delete")
            /\ UNCHANGED << results, cur >>
       ELSE /\ results' = Set(results, p,
                   Append(results[p], NotFoundResult(inputs[p][cur[p]])))
            /\ cur' = Set(cur, p, Len(inputs[p]) + 1)
            /\ pc' = Set(pc, p, "m_rlock")
    /\ UNCHANGED << overlapped, sharing, cache, writer, env, serving, nreq, kind, status,
                    refreshLocals, out, inputs, key, orig, ok, calls >>

\* A lookup that goes on to the delete call with the shared lock still held.
RemoveRUnlockKeepingLock(p) ==
    /\ pc[p] = "m_runlock"
    /\ readers' = (IF ok[p] THEN readers ELSE readers \ {p})
    /\ IF ok[p]
       THEN /\ pc' = Set(pc, p, "m_delete")
            /\ UNCHANGED << results, cur >>
       ELSE /\ results' = Set(results, p,
                   Append(results[p], NotFoundResult(inputs[p][cur[p]])))
            /\ cur' = Set(cur, p, cur[p] + 1)
            /\ pc' = Set(pc, p, "m_rlock")
    /\ UNCHANGED << overlapped, sharing, cache, writer, env, serving, nreq, kind, status,
                    refreshLocals, out, inputs, key, orig, ok, calls >>

\* RUnlock; an unknown key is reported and the loop continues.
RemoveRUnlock(p) ==
    /\ pc[p] = "m_runlock"
    /\ readers' = readers \ {p}
    /\ IF ok[p]
       THEN /\ pc' = Set(pc, p, "m_delete")
            /\ UNCHANGED << results, cur >>
       ELSE /\ results' = Set(results, p,
                   Append(results[p], NotFoundResult(inputs[p][cur[p]])))
            /\ cur' = Set(cur, p, cur[p] + 1)
            /\ pc' = Set(pc, p, "m_rlock")
    /\ UNCHANGED << overlapped, sharing, cache, writer, env, serving, nreq, kind, status,
                    refreshLocals, out, inputs, key, orig, ok, calls >>

\* A failed delete that is reported and then treated as done.
RemoveDeleteErrorFallingThrough(p) ==
    /\ pc[p] = "m_delete"
    /\ dcalls' = Set(dcalls, p, Append(dcalls[p], orig[p]))
    /\ results' = Set(results, p,
           Append(results[p], ErrorResult(inputs[p][cur[p]])))
    /\ pc' = Set(pc, p, "m_lock")
    /\ UNCHANGED << overlapped, sharing, cache, lock, env, serving, nreq, kind, status,
                    refreshLocals, out, inputs, cur, key, orig, ok, lcalls >>

\* DeleteSuppressedDestination(orig) fails: reported, the loop continues.
RemoveDeleteError(p) ==
    /\ pc[p] = "m_delete"
    /\ dcalls' = Set(dcalls, p, Append(dcalls[p], orig[p]))
    /\ results' = Set(results, p,
           Append(results[p], ErrorResult(inputs[p][cur[p]])))
    /\ cur' = Set(cur, p, cur[p] + 1)
    /\ pc' = Set(pc, p, "m_rlock")
    /\ UNCHANGED << overlapped, sharing, cache, lock, env, serving, nreq, kind, status,
                    refreshLocals, out, inputs, key, orig, ok, lcalls >>

\* A delete of the address as the user typed it.
RemoveDeleteOkAsTyped(p) ==
    /\ pc[p] = "m_delete"
    /\ dcalls' = Set(dcalls, p, Append(dcalls[p], inputs[p][cur[p]]))
    /\ remote' = remote \ {inputs[p][cur[p]]}
    /\ pc' = Set(pc, p, "m_lock")
    /\ UNCHANGED << overlapped, sharing, cache, lock, provider, serving, nreq, kind, status,
                    refreshLocals, out, removeLocals, lcalls >>

\* DeleteSuppressedDestination(orig) succeeds: the provider drops the address.
RemoveDeleteOk(p) ==
    /\ pc[p] = "m_delete"
    /\ dcalls' = Set(dcalls, p, Append(dcalls[p], orig[p]))
    /\ remote' = remote \ {orig[p]}
    /\ pc' = Set(pc, p, "m_lock")
    /\ UNCHANGED << overlapped, sharing, cache, lock, provider, serving, nreq, kind, status, refreshLocals,
                    out, removeLocals, lcalls >>

\* A critical section that forgets the index.
RemoveDeleteIndexSkipped(p) ==
    /\ pc[p] = "m_lock"
    /\ writer = NoProc /\ readers = {}
    /\ writer' = p
    /\ pc' = Set(pc, p, "m_dellist")
    /\ UNCHANGED << overlapped, sharing, cache, readers, env, serving, nreq, kind, status,
                    refreshLocals, out, removeLocals, calls >>

\* Lock, and delete(s.index, key).
RemoveDeleteIndex(p) ==
    /\ pc[p] = "m_lock"
    /\ writer = NoProc /\ readers = {}
    /\ writer' = p
    /\ index' = MapDelete(index, key[p])
    /\ overlapped' = Overlap(p)
    /\ pc' = Set(pc, p, "m_dellist")
    /\ UNCHANGED << sharing, list, readers, env, serving, nreq, kind, status,
                    refreshLocals, out, removeLocals, calls >>

\* A scan that cuts out every element equal to orig.
RemoveDeleteListAll(p) ==
    /\ pc[p] = "m_dellist"
    /\ list' = SelectSeq(list, LAMBDA v : v # orig[p])
    /\ out' = [q \in Procs |->
                  IF q \in sharing THEN WrittenThrough(out[q], list, orig[p])
                  ELSE out[q]]
    /\ overlapped' = Overlap(p)
    /\ pc' = Set(pc, p, "m_unlock")
    /\ UNCHANGED << sharing, index, lock, env, serving, nreq, kind, status,
                    refreshLocals, removeLocals, calls >>

\* The scan of s.list that cuts out the first element equal to orig, by
\* append(s.list[:i], s.list[i+1:]...): the cut is made in the backing array
\* of s.list, under every slice that shares it.
RemoveDeleteList(p) ==
    /\ pc[p] = "m_dellist"
    /\ list' = RemoveFirst(list, orig[p])
    /\ out' = [q \in Procs |->
                  IF q \in sharing THEN WrittenThrough(out[q], list, orig[p])
                  ELSE out[q]]
    /\ overlapped' = Overlap(p)
    /\ pc' = Set(pc, p, "m_unlock")
    /\ UNCHANGED << sharing, index, lock, env, serving, nreq, kind, status,
                    refreshLocals, removeLocals, calls >>

\* A removal that reports and goes on without the Unlock.
RemoveUnlockForgotten(p) ==
    /\ pc[p] = "m_unlock"
    /\ writer' = writer
    /\ results' = Set(results, p, Append(results[p], RemovedResult(orig[p])))
    /\ cur' = Set(cur, p, cur[p] + 1)
    /\ pc' = Set(pc, p, "m_rlock")
    /\ UNCHANGED << overlapped, sharing, cache, readers, env, serving, nreq, kind, status,
                    refreshLocals, out, inputs, key, orig, ok, calls >>

\* Unlock, report the removal, on to the next input.
RemoveUnlock(p) ==
    /\ pc[p] = "m_unlock"
    /\ writer' = NoProc
    /\ results' = Set(results, p, Append(results[p], RemovedResult(orig[p])))
    /\ cur' = Set(cur, p, cur[p] + 1)
    /\ pc' = Set(pc, p, "m_rlock")
    /\ UNCHANGED << overlapped, sharing, cache, readers, env, serving, nreq, kind, status,
                    refreshLocals, out, inputs, key, orig, ok, calls >>

\* ------------------------------------------------------------- return
\* The handler (or NewServer) returns; its locals are gone.
Finish(p) ==
    /\ pc[p] = "done"
    /\ serving' = (serving \/ kind[p] = "startup")
    /\ pc' = Set(pc, p, "idle")
    /\ kind' = Set(kind, p, "none")
    /\ status' = Set(status, p, 0)
    /\ emails' = Set(emails, p, <<>>)
    /\ tok' = Set(tok, p, Nil)
    /\ idx' = Set(idx, p, EmptyMap)
    /\ out' = Set(out, p, <<>>)
    /\ sharing' = sharing \ {p}
    /\ overlapped' = overlapped \ {p}
    /\ inputs' = Set(inputs, p, <<>>)
    /\ cur' = Set(cur, p, 1)
    /\ key' = Set(key, p, <<>>)
    /\ orig' = Set(orig, p, <<>>)
    /\ ok' = Set(ok, p, FALSE)
    /\ results' = Set(results, p, <<>>)
    /\ lcalls' = Set(lcalls, p, <<>>)
    /\ dcalls' = Set(dcalls, p, <<>>)
    /\ UNCHANGED << cache, lock, env, nreq >>

Step(p) ==
    \/ StartList(p)
    \/ StartUpdate(p)
    \/ StartRemove(p)
    \/ FetchPageError(p)
    \/ FetchPageMore(p)
    \/ FetchPageLast(p)
    \/ RefreshSort(p)
    \/ RefreshSwap(p)
    \/ RefreshUnlock(p)
    \/ ListCopy(p)
    \/ ListRUnlock(p)
    \/ RemoveRespond(p)
    \/ RemoveLookup(p)
    \/ RemoveRUnlock(p)
    \/ RemoveDeleteError(p)
    \/ RemoveDeleteOk(p)
    \/ RemoveDeleteIndex(p)
    \/ RemoveDeleteList(p)
    \/ RemoveUnlock(p)
    \/ Finish(p)

Next == \E p \in Procs : Step(p)

Spec == Init /\ [][Next]_vars

\* The behaviours in which no operation is interleaved with another: a
\* goroutine moves only while every other one is between requests. The
\* server itself serves requests concurrently (Next).
NextSeq ==
    \E p \in Procs :
        /\ \A q \in Procs \ {p} : pc[q] = "idle"
        /\ Step(p)

SpecSeq == Init /\ [][NextSeq]_vars

\* The steps a goroutine takes by itself once its request has started.
Run(p) ==
    \/ FetchPageError(p)
    \/ FetchPageMore(p)
    \/ FetchPageLast(p)
    \/ RefreshSort(p)
    \/ RefreshSwap(p)
    \/ RefreshUnlock(p)
    \/ ListCopy(p)
    \/ ListRUnlock(p)
    \/ RemoveRespond(p)
    \/ RemoveLookup(p)
    \/ RemoveRUnlock(p)
    \/ RemoveDeleteError(p)
    \/ RemoveDeleteOk(p)
    \/ RemoveDeleteIndex(p)
    \/ RemoveDeleteList(p)
    \/ RemoveUnlock(p)
    \/ Finish(p)

\* The scheduler runs every goroutine that can run and every remote call
\* returns: a goroutine that can take a step all the time takes one. The
\* requests being finitely many, nothing more is asked of sync.RWMutex than
\* that a free lock is granted; a listing ends within MaxPages pages.
Fairness == \A p \in Procs : WF_vars(Run(p))

\* Whether the requests complete does not depend on the addresses: the fair
\* behaviours are those of the server with the provider without repeats.
InitFair == Init /\ provider = "distinct"

SpecFair == InitFair /\ [][Next]_vars /\ Fairness

\* ------------------------------------------------------------- properties
Elems(l) == { l[n] : n \in 1..Len(l) }

Count(l, a) == Cardinality({ n \in 1..Len(l) : l[n] = a })

SameElements(l, m) ==
    /\ Len(l) = Len(m)
    /\ \A a \in Elems(l) \cup Elems(m) : Count(l, a) = Count(m, a)

IsPrefix(l, m) == Len(l) <= Len(m) /\ SubSeq(m, 1, Len(l)) = l

IsSortedCI(l) ==
    \A m, n \in 1..Len(l) : m < n => ~StrLess(ToLower(l[n]), ToLower(l[m]))

\* Every element of the list has an index entry under its lowercased form,
\* and every value of the index is an element of the list.
Agree(l, m) ==
    /\ \A n \in 1..Len(l) : ToLower(l[n]) \in DOMAIN m
    /\ \A k \in DOMAIN m : m[k] \in Elems(l)

\* C1: every list call of a refresh, the failing one included, leaves the
\* list and the index as they are, and a failed call ends the refresh with
\* the error (500 on /update, logged at start-up): a refresh in which a page
\* request fails has not written to the cache.
C1_FailedRefreshLeavesCache ==
    [][\A p \in Procs :
          (pc[p] = "r_fetch" /\ (pc'[p] # pc[p] \/ lcalls'[p] # lcalls[p]))
          => /\ list' = list
             /\ index' = index
             /\ pc'[p] = "done"
                => status'[p] = (IF kind[p] = "startup" THEN 0 ELSE 500)
             /\ pc'[p] \in {"r_fetch", "r_sort", "done"}]_vars

\* An /update answered 500 after its second page request failed, with the
\* cache of an earlier refresh still in place.
C1_Witness ==
    \E p \in Procs :
        /\ pc[p] = "done" /\ kind[p] = "update" /\ status[p] = 500
        /\ Len(lcalls[p]) = 2
        /\ list # <<>> /\ DOMAIN index # {}

\* C2: a successful refresh installs a list with the same elements, each as
\* often and spelled as the provider returned it, as the concatenation of its
\* pages: every page is appended to what was collected, the sort permutes
\* it, and the swap installs exactly that.
C2_RefreshInstallsAllPages ==
    [][\A p \in Procs :
          /\ (pc[p] = "r_fetch" /\ pc'[p] \in {"r_fetch", "r_sort"})
             => IsPrefix(emails[p], emails'[p])
          /\ (pc[p] = "r_sort" /\ pc'[p] = "r_lock")
             => SameElements(emails'[p], emails[p])
          /\ (pc[p] = "r_lock" /\ pc'[p] = "r_unlock")
             => /\ list' = emails[p]
                /\ Len(list') = Len(emails[p])]_vars

\* A refresh has just installed three addresses, one of them twice.
C2_Witness ==
    \E p \in Procs :
        /\ pc[p] = "r_unlock" /\ kind[p] = "update"
        /\ list = emails[p] /\ Len(list) = 3
        /\ \E a \in Addr : Count(list, a) = 2

\* C3: in every reachable state the list, and every copy of it that /list or
\* /update is about to send, is in ascending order of its lowercased elements.
C3_ListSortedCaseInsensitive ==
    /\ IsSortedCI(list)
    /\ \A p \in Procs : IsSortedCI(out[p])

\* A removal has just cut an element out of a three-element list while the
\* other goroutine runs a refresh; what is left is "a" before "B", which
\* the byte order would put the other way round.
C3_Witness ==
    \E p, q \in Procs :
        /\ pc[p] = "m_unlock"
        /\ kind[q] = "update" /\ pc[q] = "r_lock"
        /\ Len(list) = 2
        /\ StrLess(list[2], list[1])

\* C4, as claimed: whenever the lock is free the list and the index agree,
\* whatever the provider returns.
C4_AgreeForAnyProvider ==
    writer = NoProc => Agree(list, index)

\* C4, amended: whenever the lock is free the list and the index agree,
\* provided the provider never returns two addresses with the same
\* lowercased form (neither case variants nor one address twice).
C4_AgreeForDistinctProvider ==
    (provider = "distinct" /\ writer = NoProc) => Agree(list, index)

\* With the distinct provider and the lock free: a removal is reported, the
\* other goroutine is in the middle of a refresh, and an entry is left.
C4_Witness ==
    \E p, q \in Procs :
        /\ provider = "distinct" /\ writer = NoProc
        /\ pc[p] = "m_rlock" /\ cur[p] > 1
        /\ results[p][1][1] = "removed: "
        /\ kind[q] = "update" /\ pc[q] = "r_lock"
        /\ list # <<>> /\ DOMAIN index # {}

\* The loop of handleRemove is over and the response is about to be sent.
BatchDone(p) == pc[p] = "m_rlock" /\ cur[p] > Len(inputs[p])

\* The failed delete of a step: the input is reported with an error result,
\* neither list nor index changes, and the loop goes on with the next input.
FailedDeleteStep(p) ==
    (pc[p] = "m_delete" /\ results'[p] # results[p])
    => /\ results'[p] = Append(results[p], ErrorResult(inputs[p][cur[p]]))
       /\ list' = list /\ index' = index
       /\ cur'[p] = cur[p] + 1
       /\ pc'[p] = "m_rlock"

\* Line n of the batch failed and no later line removed its address.
FailedFor(p, n) ==
    /\ results[p][n][1] = "error: "
    /\ \A m \in (n + 1)..Len(results[p]) :
          ~(/\ results[p][m][1] = "removed: "
            /\ ToLower(inputs[p][m]) = ToLower(inputs[p][n]))

\* The cache holds the address with lowercased form k: the index has the
\* key and the list the index's value.
Holds(k) == k \in DOMAIN index /\ index[k] \in Elems(list)

\* One delete of the batch failed and another succeeded.
MixedBatch(p) ==
    /\ \E n \in 1..Len(results[p]) : results[p][n][1] = "error: "
    /\ \E n \in 1..Len(results[p]) : results[p][n][1] = "removed: "

\* C5, as claimed: a failed remote delete is reported as an error for that
\* input and changes neither list nor index, and the loop goes on with the
\* next input; after a batch where one delete failed and another succeeded
\* the cache still holds every address whose delete failed, and holds no
\* address reported removed, neither its key in the index nor its value in
\* the list.
C5_BatchKeepsFailedDropsRemoved ==
    [][\A p \in Procs :
          /\ FailedDeleteStep(p)
          /\ (BatchDone(p) /\ MixedBatch(p))
             => /\ Len(results[p]) = Len(inputs[p])
                /\ \A n \in 1..Len(results[p]) :
                      /\ FailedFor(p, n) => Holds(ToLower(inputs[p][n]))
                      /\ results[p][n][1] = "removed: "
                         => /\ ToLower(inputs[p][n]) \notin DOMAIN index
                            /\ results[p][n][2] \notin Elems(list)]_vars

\* C5, amended: the failed delete is reported, changes nothing and the loop
\* goes on, whatever else runs; and when no other request has written the
\* cache while the batch ran, the cache after the batch (whether or not it
\* mixes failures and successes) still holds every address whose delete
\* failed and no longer has the key of an address reported removed, nor its
\* value in the list unless the provider had returned that address more
\* than once.
C5_DeleteErrorKeepsEntry ==
    [][\A p \in Procs :
          /\ FailedDeleteStep(p)
          /\ BatchDone(p)
             => Len(results[p]) = Len(inputs[p])
          /\ (BatchDone(p) /\ p \notin overlapped)
             => \A n \in 1..Len(results[p]) :
                   /\ FailedFor(p, n) => Holds(ToLower(inputs[p][n]))
                   /\ results[p][n][1] = "removed: "
                      => /\ ToLower(inputs[p][n]) \notin DOMAIN index
                         /\ provider # "any"
                            => results[p][n][2] \notin Elems(list)]_vars

\* The batch "A\nb" is over and no other request has written the cache
\* meanwhile, though a /list request runs beside it: the delete of "a"
\* failed, the one of "B" or "b" succeeded; "a" is still cached and "b" is
\* no longer a key.
C5_Witness ==
    \E p, q \in Procs :
        /\ BatchDone(p) /\ p \notin overlapped
        /\ kind[q] = "list" /\ pc[q] = "l_runlock"
        /\ inputs[p] = << <<65>>, <<98>> >>
        /\ results[p][1] = ErrorResult(<<65>>)
        /\ results[p][2][1] = "removed: "
        /\ <<97>> \in Elems(list)
        /\ <<97>> \in DOMAIN index
        /\ <<98>> \notin DOMAIN index

\* C6: with one request at a time, when a batch names the same address
\* twice and its first line is reported removed, the second line is reported
\* not found and no second delete call is made; the removal names the cached
\* spelling and, when the input is spelled as cached, both results name it.
C6_SecondRemovalNotFound ==
    \A p \in Procs :
        (/\ BatchDone(p)
         /\ Len(inputs[p]) = 2
         /\ ToLower(inputs[p][1]) = ToLower(inputs[p][2])
         /\ Len(results[p]) >= 1
         /\ results[p][1][1] = "removed: ")
        => /\ Len(dcalls[p]) = 1
           /\ results[p] = << RemovedResult(dcalls[p][1]),
                              NotFoundResult(inputs[p][2]) >>
           /\ inputs[p][1] = dcalls[p][1]
              => results[p][1][2] = results[p][2][2]

\* The batch "B\nB" against a cache that held "B": removed, then not found.
C6_Witness ==
    \E p \in Procs :
        /\ BatchDone(p)
        /\ inputs[p] = << <<66>>, <<66>> >>
        /\ results[p] = << RemovedResult(<<66>>), NotFoundResult(<<66>>) >>
        /\ dcalls[p] = << <<66>> >>

\* C7: an input is looked up under its lowercased form; when that is a key
\* of the index the input resolves to the index's original-case value (whose
\* lowercased form is the key), the remote delete is called with that value
\* and not with the input, the key is gone from the index (and the value
\* from the list, unless the provider had returned it twice) when the
\* critical section ends, and the result names the original-case value.
C7_RemoveMatchesCaseInsensitively ==
    \A p \in Procs :
        /\ pc[p] = "m_runlock"
           => /\ key[p] = ToLower(inputs[p][cur[p]])
              /\ ok[p] = (key[p] \in DOMAIN index)
              /\ ok[p] => (orig[p] = index[key[p]] /\ ToLower(orig[p]) = key[p])
        /\ pc[p] \in {"m_lock", "m_dellist", "m_unlock"}
           => /\ dcalls[p] # <<>>
              /\ dcalls[p][Len(dcalls[p])] = orig[p]
              /\ orig[p] \notin remote
        /\ pc[p] = "m_unlock"
           => /\ key[p] \notin DOMAIN index
              /\ provider = "distinct" => orig[p] \notin Elems(list)
        /\ \A n \in 1..Len(results[p]) :
              results[p][n][1] = "removed: "
              => /\ ToLower(results[p][n][2]) = ToLower(inputs[p][n])
                 /\ results[p][n][2] \in Universe(provider)

\* The input "A" has been resolved to the cached "a", deleted remotely under
\* that spelling and cut out of list and index.
C7_Witness ==
    \E p \in Procs :
        /\ pc[p] = "m_unlock"
        /\ inputs[p][cur[p]] = <<65>>
        /\ orig[p] = <<97>>
        /\ dcalls[p] = << <<97>> >>
        /\ <<97>> \notin Elems(list)
        /\ <<97>> \notin DOMAIN index

ResultFor(input, r) ==
    \/ r = NotFoundResult(input)
    \/ r = ErrorResult(input)
    \/ r[1] = "removed: " /\ ToLower(r[2]) = ToLower(input)

IsInputLine(l) ==
    /\ l # <<>>
    /\ ~IsSpace(l[1]) /\ ~IsSpace(l[Len(l)])
    /\ \A n \in 1..Len(l) : l[n] # 10

\* C8: the inputs of a /remove request are its non-empty trimmed lines; while
\* the loop runs there is exactly one result for each input already passed,
\* in input order, each a "removed: ", "not found: " or "error: " result for
\* that very input, whatever the earlier results were; so the response holds
\* one result per input.
C8_OneResultPerInput ==
    \A p \in Procs :
        /\ \A n \in 1..Len(inputs[p]) : IsInputLine(inputs[p][n])
        /\ InLoop(p)
           => /\ cur[p] <= Len(inputs[p]) + 1
              /\ Len(results[p]) = cur[p] - 1
              /\ \A n \in 1..Len(results[p]) :
                    ResultFor(inputs[p][n], results[p][n])
        /\ (pc[p] = "done" /\ kind[p] = "remove" /\ status[p] = 200)
           => /\ Len(results[p]) = Len(inputs[p])
              /\ \A n \in 1..Len(results[p]) :
                    ResultFor(inputs[p][n], results[p][n])

\* The body " z\n\na \n" has been answered: "z" not found, then "a" removed.
C8_Witness ==
    \E p \in Procs :
        /\ pc[p] = "done" /\ status[p] = 200
        /\ inputs[p] = << <<122>>, <<97>> >>
        /\ results[p] = << NotFoundResult(<<122>>), RemovedResult(<<97>>) >>

\* C9: when the lowercased input is not a key of the index at the lookup,
\* the goroutine's next step reports "not found: <input>" and goes on to the
\* next input; it makes no delete call and changes neither the list, the
\* index nor the provider's list.
C9_NotFoundTouchesNothing ==
    [][\A p \in Procs :
          (/\ pc[p] = "m_runlock"
           /\ ToLower(inputs[p][cur[p]]) \notin DOMAIN index
           /\ pc'[p] # pc[p])
          => /\ results'[p] =
                    Append(results[p], NotFoundResult(inputs[p][cur[p]]))
             /\ dcalls' = dcalls
             /\ list' = list /\ index' = index
             /\ remote' = remote
             /\ cur'[p] = cur[p] + 1
             /\ pc'[p] = "m_rlock"]_vars

\* "z" has been reported not found against a non-empty cache, without any
\* delete call, and the loop is at the next input.
C9_Witness ==
    \E p \in Procs :
        /\ pc[p] = "m_rlock" /\ cur[p] = 2
        /\ results[p] = << NotFoundResult(<<122>>) >>
        /\ dcalls[p] = <<>>
        /\ list # <<>> /\ DOMAIN index # {}

Rejected == {400, 405}

\* C10: the step that answers 405 or 400 is the first step of an /update or
\* /remove request (400 only of /remove), ends the handler, has made no list
\* or delete call and leaves the list, the index, the lock and the
\* provider's list as they are; all the rejected handler does afterwards is
\* return.
C10_RejectedRequestTouchesNothing ==
    [][\A p \in Procs :
          /\ (status'[p] \in Rejected /\ status'[p] # status[p])
             => /\ pc[p] = "idle" /\ pc'[p] = "done"
                /\ kind'[p] \in {"update", "remove"}
                /\ status'[p] = 400 => kind'[p] = "remove"
                /\ lcalls'[p] = <<>> /\ dcalls'[p] = <<>>
                /\ list' = list /\ index' = index
                /\ remote' = remote
                /\ writer' = writer /\ readers' = readers
          /\ (status[p] \in Rejected /\ pc'[p] # pc[p])
             => /\ pc[p] = "done" /\ pc'[p] = "idle"
                /\ lcalls[p] = <<>> /\ dcalls[p] = <<>>
                /\ list' = list /\ index' = index
                /\ remote' = remote]_vars

\* One goroutine has answered 405 to an /update and the other 400 to a
\* /remove, with a cache in place.
C10_Witness ==
    \E p, q \in Procs :
        /\ pc[p] = "done" /\ kind[p] = "update" /\ status[p] = 405
        /\ pc[q] = "done" /\ kind[q] = "remove" /\ status[q] = 400
        /\ list # <<>> /\ DOMAIN index # {}

\* The goroutine is inside a remote call, or about to issue it.
InRemoteCall(p) == pc[p] \in {"r_fetch", "m_delete"}

HoldsLock(p) == writer = p \/ p \in readers

\* C11: in every reachable state a goroutine that is performing a remote
\* call (a list-page request of refresh or a delete of handleRemove) holds
\* listMu neither shared nor exclusively, and the sort and index build of
\* refresh run without the lock as well.
C11_NoLockDuringRemoteCall ==
    \A p \in Procs :
        (InRemoteCall(p) \/ pc[p] \in {"r_sort", "r_lock", "m_lock"})
        => ~HoldsLock(p)

\* One goroutine is in its delete call, after a lookup under the shared
\* lock, while the other fetches the second page of a refresh; the lock is free.
C11_Witness ==
    \E p, q \in Procs :
        /\ pc[p] = "m_delete" /\ ok[p]
        /\ pc[q] = "r_fetch" /\ Len(lcalls[q]) = 1
        /\ writer = NoProc /\ readers = {}

\* The goroutine has applied part of a write: the removal has deleted the
\* index key but not yet scanned the list, or either writer has finished
\* and not yet unlocked.
WritePoints == {"m_dellist", "m_unlock", "r_unlock"}

InWrite(p) == pc[p] \in WritePoints

\* C12: shared and exclusive holders exclude each other; a goroutine between
\* the first write of a removal or refresh and its Unlock is the exclusive
\* holder; every step that changes the list or the index is taken by the
\* exclusive holder with no reader inside, before and after; a reader enters
\* only while no writer holds the lock; the refresh changes list and index
\* in one step and the removal's two deletes lie in one critical section.
C12_ReadersSeeWholeWrites ==
    /\ [](/\ readers # {} => writer = NoProc
          /\ \A p \in Procs : InWrite(p) => (writer = p /\ readers = {})
          /\ \A p \in Procs : p \in readers
                => pc[p] \in {"l_runlock", "m_runlock"})
    /\ [][/\ (list' # list \/ index' # index)
             => /\ readers = {} /\ readers' = {}
                /\ writer' # NoProc
                /\ writer \in {NoProc, writer'}
                /\ pc'[writer'] \in WritePoints
          /\ readers' # readers => (writer = NoProc /\ writer' = NoProc)
          /\ \A p \in Procs :
                /\ (pc[p] = "m_lock" /\ pc'[p] # pc[p])
                   => (pc'[p] = "m_dellist" /\ writer' = p)
                /\ (pc[p] = "m_dellist" /\ pc'[p] # pc[p])
                   => (pc'[p] = "m_unlock" /\ writer' = p)
                /\ (pc[p] = "r_lock" /\ pc'[p] # pc[p])
                   => /\ list' = emails[p] /\ index' = idx[p]
                      /\ writer' = p]_vars

\* A removal has deleted the index key "a" and not yet the list element "a"
\* while the other goroutine waits at the RLock of handleList: the lock is
\* held exclusively and nobody reads.
C12_Witness ==
    \E p, q \in Procs :
        /\ pc[p] = "m_dellist" /\ orig[p] = <<97>>
        /\ <<97>> \in Elems(list) /\ <<97>> \notin DOMAIN index
        /\ pc[q] = "l_rlock"
        /\ writer = p /\ readers = {}

\* C13: the first list request of a refresh passes no cursor, every request
\* passes the cursor the page before it returned, and a page whose cursor is
\* absent or empty ends the pagination: the loop goes round only after a
\* page that returned a cursor that is neither nil nor "".
C13_StopsAtAbsentOrEmptyCursor ==
    [][\A p \in Procs :
          (pc[p] = "r_fetch" /\ (pc'[p] # pc[p] \/ lcalls'[p] # lcalls[p]))
          => /\ lcalls[p] = <<>> => tok[p] = Nil
             /\ pc'[p] = "r_fetch"
                => /\ lcalls'[p] = Append(lcalls[p], tok[p])
                   /\ tok'[p] \notin {Nil, ""}
             /\ pc'[p] = "done"
                => lcalls'[p] = Append(lcalls[p], tok[p])]_vars

\* The spellings in es of the address with lowercased form k.
Variants(es, k) == { a \in Elems(es) : ToLower(a) = k }

\* The lowercased forms for which es holds two case variants.
VariantKeys(es) ==
    { k \in { ToLower(a) : a \in Elems(es) } : Cardinality(Variants(es, k)) > 1 }

\* The element of es with lowercased form k that stands last in es.
LastOf(es, k) ==
    es[CHOOSE n \in 1..Len(es) :
          /\ ToLower(es[n]) = k
          /\ \A m \in (n + 1)..Len(es) : ToLower(es[m]) # k]

\* C14, as claimed: when the sort and index build of a refresh run on
\* addresses collected with two case variants of one address, both variants
\* are in the sorted list and the index built holds, under their lowercased
\* form, the variant that was collected last (the later in fetch order); the
\* swap installs that list and that index.
C14_LaterInFetchOrderWins ==
    [][\A p \in Procs :
          /\ (pc[p] = "r_sort" /\ pc'[p] = "r_lock")
             => \A k \in VariantKeys(emails[p]) :
                   /\ Variants(emails'[p], k) = Variants(emails[p], k)
                   /\ idx'[p][k] = LastOf(emails[p], k)
          /\ (pc[p] = "r_lock" /\ pc'[p] = "r_unlock")
             => (list' = emails[p] /\ index' = idx[p])]_vars

\* C14, amended: both variants are in the sorted list and the index built
\* holds, under their lowercased form, the variant that stands last in the
\* sorted list, whichever was collected last; the swap installs that list
\* and that index.
C14_LaterInSortedOrderWins ==
    [][\A p \in Procs :
          /\ (pc[p] = "r_sort" /\ pc'[p] = "r_lock")
             => \A k \in VariantKeys(emails[p]) :
                   /\ Variants(emails'[p], k) = Variants(emails[p], k)
                   /\ idx'[p][k] = LastOf(emails'[p], k)
          /\ (pc[p] = "r_lock" /\ pc'[p] = "r_unlock")
             => /\ list' = emails[p] /\ index' = idx[p]
                /\ \A k \in VariantKeys(list') : index'[k] = LastOf(list', k)]_vars

\* A refresh has installed the thirteen addresses of the long listing: "b",
\* listed last of the two variants, stands before "B" in the sorted list,
\* and the key "b" holds "B".
C14_Witness ==
    \E p \in Procs :
        /\ pc[p] = "r_unlock"
        /\ Len(list) = Len(LongListing)
        /\ list[2] = <<98>> /\ list[3] = <<66>>
        /\ index[<<98>>] = <<66>>

\* The address the removal resolved is in the cache no more: its key is not
\* in the index and its original-case value is not in the list.
Absent(p) == key[p] \notin DOMAIN index /\ orig[p] \notin Elems(list)

\* C15: when a removal reaches its critical section after a successful
\* delete call and the address is absent from the cache (another removal or
\* a refresh took it out since the lookup), the index delete and the list
\* scan change neither the list nor the index, and the removal unlocks,
\* reports "removed: <original-case value>" and goes on to its next input.
C15_MutationOfAbsentIsNoOp ==
    [][\A p \in Procs :
          /\ (pc[p] = "m_lock" /\ Absent(p) /\ pc'[p] # pc[p])
             => /\ list' = list /\ index' = index
                /\ pc'[p] = "m_dellist" /\ writer' = p
          /\ (pc[p] = "m_dellist" /\ Absent(p) /\ pc'[p] # pc[p])
             => /\ list' = list /\ index' = index
                /\ pc'[p] = "m_unlock"
          /\ (pc[p] = "m_unlock" /\ pc'[p] # pc[p])
             => /\ list' = list /\ index' = index
                /\ writer' = NoProc
                /\ results'[p] = Append(results[p], RemovedResult(orig[p]))
                /\ cur'[p] = cur[p] + 1
                /\ pc'[p] = "m_rlock"]_vars

\* Two removals resolved "a" before either changed the cache; the other one
\* has removed it and reported so, this one has gone through its critical
\* section on a cache that still holds another address.
C15_Witness ==
    \E p, q \in Procs :
        /\ p # q
        /\ pc[p] = "m_unlock" /\ orig[p] = <<97>> /\ key[p] = <<97>>
        /\ kind[q] = "remove" /\ results[q] # <<>>
        /\ results[q][Len(results[q])] = RemovedResult(<<97>>)
        /\ dcalls[p] = << <<97>> >>
        /\ list # <<>> /\ DOMAIN index # {}

\* m is l without its element at position i.
CutAt(l, m, i) ==
    /\ i \in 1..Len(l)
    /\ m = SubSeq(l, 1, i - 1) \o SubSeq(l, i + 1, Len(l))

\* m is l without the first occurrence of v.
WithoutFirst(l, m, v) ==
    \E i \in 1..Len(l) :
        /\ l[i] = v
        /\ \A j \in 1..(i - 1) : l[j] # v
        /\ CutAt(l, m, i)

\* m is the map g without the key k, every other entry as in g.
WithoutKey(g, m, k) ==
    /\ DOMAIN m = DOMAIN g \ {k}
    /\ \A x \in DOMAIN m : m[x] = g[x]

\* C16, as claimed: the critical section of a successful removal takes
\* exactly one key out of the index, the lowercased key, and exactly one
\* element out of the list, the first occurrence of the original-case value;
\* every other index entry is unchanged and every other list element stays,
\* in the same relative order.
C16_ExactlyOneElementAndKey ==
    [][\A p \in Procs :
          /\ (pc[p] = "m_lock" /\ pc'[p] # pc[p])
             => /\ key[p] \in DOMAIN index
                /\ WithoutKey(index, index', key[p])
                /\ list' = list
          /\ (pc[p] = "m_dellist" /\ pc'[p] # pc[p])
             => /\ WithoutFirst(list, list', orig[p])
                /\ index' = index]_vars

\* C16, amended: the critical section takes at most one key out of the
\* index, the lowercased key, and at most one element out of the list, the
\* first occurrence of the original-case value; every other index entry is
\* unchanged and every other list element stays, in the same relative order.
\* It is exactly one key when the key is still in the index and exactly one
\* element when the value is still in the list.
C16_AtMostOneElementAndKey ==
    [][\A p \in Procs :
          /\ (pc[p] = "m_lock" /\ pc'[p] # pc[p])
             => /\ WithoutKey(index, index', key[p])
                /\ key[p] \notin DOMAIN index => index' = index
                /\ key[p] \in DOMAIN index
                   => Cardinality(DOMAIN index') = Cardinality(DOMAIN index) - 1
                /\ list' = list
          /\ (pc[p] = "m_dellist" /\ pc'[p] # pc[p])
             => /\ IF orig[p] \in Elems(list)
                   THEN WithoutFirst(list, list', orig[p])
                   ELSE list' = list
                /\ index' = index]_vars

\* A removal of "B" from the list "a", "B", "B" has cut out the first "B"
\* and the key "b": "a" and the second "B" are left, and the key "a".
C16_Witness ==
    \E p \in Procs :
        /\ pc[p] = "m_unlock"
        /\ orig[p] = <<66>> /\ key[p] = <<98>>
        /\ list = << <<97>>, <<66>> >>
        /\ DOMAIN index = { <<97>> }
        /\ index[<<97>>] = <<97>>

\* The goroutine has taken its snapshot and not yet returned.
HasSnapshot(p) == pc[p] \in {"l_runlock", "done"} /\ kind[p] \in {"list", "update"}

\* C17: the snapshot handleList takes is a copy in storage of its own: from
\* the moment it is taken until the handler returns no step of another
\* goroutine, neither the in-place cut of a removal nor the swap of a
\* refresh, changes its contents, and it never shares the backing array of
\* the list.
C17_SnapshotIsIndependentCopy ==
    /\ [](\A p \in Procs : HasSnapshot(p) => p \notin sharing)
    /\ [][\A p \in Procs :
             /\ (pc[p] = "l_rlock" /\ pc'[p] = "l_runlock") => out'[p] = list
             /\ (HasSnapshot(p) /\ pc'[p] # "idle") => out'[p] = out[p]]_vars

\* A /list request holds its snapshot of three addresses and has not yet
\* returned; since the copy a removal has cut "a" out of the list, in place.
C17_Witness ==
    \E p, q \in Procs :
        /\ pc[p] = "done" /\ kind[p] = "list" /\ status[p] = 200
        /\ Len(out[p]) = 3 /\ out[p][1] = <<97>>
        /\ pc[q] = "m_unlock" /\ orig[q] = <<97>>
        /\ list = Tail(out[p])

\* The goroutine is inside refresh or inside the loop of handleRemove.
InFlight(p) ==
    pc[p] \in {"r_fetch", "r_sort", "r_lock", "r_unlock"} \/ InLoop(p)

\* C18: the provider's list loses addresses only through the delete calls of
\* this program (and, in favour of the claim, never returns two addresses
\* with the same lowercased form); then, whenever no refresh and no removal
\* is in flight, every element of the list and every value of the index is
\* still in the provider's list, so an address reported removed is cached
\* no more.
C18_QuiescentCacheIsSuppressed ==
    (provider = "distinct" /\ \A p \in Procs : ~InFlight(p))
    => /\ Elems(list) \subseteq remote
       /\ \A k \in DOMAIN index : index[k] \in remote

\* The goroutine waits for listMu, shared or exclusive.
AtLock(p) ==
    \/ pc[p] \in {"r_lock", "m_lock", "l_rlock"}
    \/ pc[p] = "m_rlock" /\ cur[p] <= Len(inputs[p])

\* C19: under fair scheduling, with remote calls that return and listings
\* that end, every request (and the start-up refresh) completes; a goroutine
\* that holds the lock releases it and holds none when its handler is over;
\* a goroutine waiting for the lock gets it; and a remove request passes
\* its inputs one by one, each once, until it has a result for each.
C19_AllRequestsComplete ==
    /\ \A p \in Procs : (pc[p] # "idle") ~> (pc[p] = "idle")
    /\ \A p \in Procs : HoldsLock(p) ~> ~HoldsLock(p)
    /\ [](\A p \in Procs : pc[p] \in {"idle", "done"} => ~HoldsLock(p))
    /\ \A p \in Procs : AtLock(p) ~> HoldsLock(p)
    /\ \A p \in Procs :
          (kind[p] = "remove" /\ InLoop(p))
          ~> (BatchDone(p) /\ Len(results[p]) = Len(inputs[p]))
    /\ [][\A p \in Procs :
             InLoop(p) => /\ cur'[p] \in {cur[p], cur[p] + 1}
                          /\ cur'[p] <= Len(inputs[p]) + 1
                          /\ Len(results'[p]) = cur'[p] - 1]_vars

\* A removal waits for the exclusive lock while the other goroutine, a
\* removal too, holds the lock shared.
C19_Witness ==
    \E p, q \in Procs :
        /\ pc[p] = "m_lock"
        /\ pc[q] = "m_runlock" /\ q \in readers
        /\ cur[p] = 2 /\ cur[q] = 2

====
